---- MODULE Spec2Model ----
(***************************************************************************)
(* Model of the example scripts of NodeInDepth whose behaviour is more     *)
(* than a straight line of library calls:                                  *)
(*   - streams/writable_stream.js and streams/writeMany.js: a producer     *)
(*     that writes totalWrites chunks to a file write stream and pauses    *)
(*     on backpressure until 'drain';                                      *)
(*   - file-system/fs-project/app.js (final version): the command file     *)
(*     watcher that parses a free-text command and creates, deletes,       *)
(*     renames or appends to a file.                                       *)
(* The scripts are independent programs; `script` says which one runs.     *)
(* The Writable stream and the file system are the host runtime: they are  *)
(* modelled by what the runtime documents (write() returns                 *)
(* length < highWaterMark, 'drain' once the queue empties after a false,   *)
(* 'finish' after end() when everything is flushed, 'close' last, an I/O   *)
(* error destroys the stream).                                             *)
(***************************************************************************)
EXTENDS Integers, Sequences, FiniteSets, TLC

VARIABLES
  script,         \* which script is running
  \* ---- streams/writable_stream.js, streams/writeMany.js
  i,              \* `let i = 0`: index of the next chunk to hand over
  totalWrites,    \* `const totalWrites` (scaled down to at most MaxTotalWrites)
  highWaterMark,  \* stream.writableHighWaterMark, in bytes
  pc,             \* producer position: "start", "loop" (inside the while), "idle"
  buffered,       \* chunks queued in the stream, oldest first (writableLength = BufLen)
  flushed,        \* chunks written to the file, in order
  needDrain,      \* a write() returned false and 'drain' has not been emitted since
  ending,         \* end() has been called
  finished,       \* 'finish' has been emitted
  closed,         \* 'close' has been emitted
  errored,        \* the stream was destroyed by an I/O error ('error' emitted)
  fhClosed,       \* the script has called close() on the FileHandle
  calls,          \* history: the calls made on the stream, <<"write"|"end", chunk index>>
  \* ---- file-system/fs-project/app.js (final version)
  files,          \* the file system: path |-> [content, readable], for the paths that exist
  commandText,    \* `const commandText`: the trimmed content of command.txt read by the handler
  hpc,            \* position of the 'change' handler: "idle", "create", "delete", "rename", "add"
  invoked,        \* history: the function the last handler step invoked, <<name, args...>>, or <<>>
  console,        \* history: the messages the last handler step logged
  mutations,      \* history: the file-system mutations the last handler step performed
  outcome,        \* how the last handler run ended: "none", "running", "returned", "rejected"
  changes,        \* number of 'change' events handled so far
  \* ---- buffers/production-example.js: ProductionBufferProcessor
  processor,      \* the instance: maxBufferSize, processedBytes, processedChunks, errors, errorCount
  bufCall,        \* history: the last method call, <<name, argument, ...>>
  bufReturn,      \* history: <<"returned", value>> or <<"threw", message>>
  bufOps,         \* number of method calls made so far
  \* ---- emitters/production-example.js: ProductionEventEmitter
  emitter,        \* the instance: options, listeners, maps and counters
  timers,         \* the pending setTimeout timers of the process
  now,            \* performance.now(), in units of the delays
  emCall,         \* history: the last call or timer callback, <<name, ...>>
  emReturn,       \* history: <<"returned", value>> or <<"threw", what>>
  invocations,    \* history: dispatches and listener invocations of that call
  debounced,      \* history: per event, the last emitDebounced call
  throttled,      \* history: per event, time of the last delivering emitThrottled
  emOps           \* number of method calls made so far

streamVars == <<i, totalWrites, highWaterMark, pc, buffered, flushed, needDrain,
                ending, finished, closed, errored, fhClosed, calls>>

fsVars == <<files, commandText, hpc, invoked, console, mutations, outcome, changes>>

bufVars == <<processor, bufCall, bufReturn, bufOps>>

emVars ==
  <<emitter, timers, now, emCall, emReturn, invocations, debounced,
    throttled, emOps>>

vars == <<script, streamVars, fsVars, bufVars, emVars>>

\* The variables of the scripts that are not running.
StreamsIdle ==
  /\ i = 0 /\ totalWrites = 1 /\ highWaterMark = 1 /\ pc = "start"
  /\ buffered = <<>> /\ flushed = <<>> /\ needDrain = FALSE /\ ending = FALSE
  /\ finished = FALSE /\ closed = FALSE /\ errored = FALSE /\ fhClosed = FALSE
  /\ calls = <<>>

FsIdle ==
  /\ files = <<>> /\ commandText = <<>> /\ hpc = "idle" /\ invoked = <<>>
  /\ console = <<>> /\ mutations = <<>> /\ outcome = "none" /\ changes = 0

BufIdle ==
  /\ processor = <<>> /\ bufCall = <<>> /\ bufReturn = <<>> /\ bufOps = 0

EmIdle ==
  /\ emitter = <<>> /\ timers = {} /\ now = 0 /\ emCall = <<>>
  /\ emReturn = <<>> /\ invocations = <<>> /\ debounced = <<>>
  /\ throttled = <<>> /\ emOps = 0

\* ---------------------------------------------------------------- bounds
MaxTotalWrites == 5
MaxHighWaterMark == 16

\* ====================================================================
\* streams/writable_stream.js and streams/writeMany.js
\* ====================================================================

RECURSIVE Digits(_)
\* Number of decimal digits of n, the length of `${i}`.
Digits(n) == IF n < 10 THEN 1 ELSE 1 + Digits(n \div 10)

\* Byte length of the chunk built for index n:
\* Buffer.from(`line=${i}\n`) in writable_stream.js, Buffer.from(` ${i} `) in writeMany.js.
ChunkLen(s, n) == IF s = "writable_stream" THEN 5 + Digits(n) + 1 ELSE 1 + Digits(n) + 1

RECURSIVE SumLen(_, _)
SumLen(s, q) == IF q = <<>> THEN 0 ELSE ChunkLen(s, Head(q)) + SumLen(s, Tail(q))

\* stream.writableLength
BufLen == SumLen(script, buffered)

\* Return value of stream.write(chunk n): the queue, with the chunk in it, is
\* still below the threshold.
WriteReturn(n) == BufLen + ChunkLen(script, n) < highWaterMark

\* stream.write(chunk n): queue the chunk; a false return arms 'drain'.
StreamWrite(n) ==
  /\ buffered' = Append(buffered, n)
  /\ needDrain' = (needDrain \/ ~WriteReturn(n))
  /\ calls' = Append(calls, <<"write", n>>)
  /\ UNCHANGED ending

\* stream.end(chunk n): queue the final chunk and mark the stream as ending.
StreamEnd(n) ==
  /\ buffered' = Append(buffered, n)
  /\ needDrain' = (needDrain \/ ~WriteReturn(n))
  /\ calls' = Append(calls, <<"end", n>>)
  /\ ending' = TRUE

\* pump() as it would be if the return value of write() were ignored.
pump_ignoresBackpressure ==
  /\ script = "writable_stream"
  /\ pc = "loop"
  /\ IF i < totalWrites
       THEN LET isLast == (i = totalWrites - 1) IN
            /\ i' = i + 1
            /\ IF isLast
                 THEN StreamEnd(i) /\ pc' = "idle"
                 ELSE StreamWrite(i) /\ pc' = "loop"
       ELSE /\ pc' = "idle"
            /\ UNCHANGED <<i, buffered, needDrain, calls, ending>>
  /\ UNCHANGED <<script, totalWrites, highWaterMark, flushed, finished, closed,
                 errored, fhClosed>>
  /\ UNCHANGED <<fsVars, bufVars, emVars>>

\* pump() as it would be if the last chunk went through write() and end() were
\* never called.
pump_neverEnds ==
  /\ script = "writable_stream"
  /\ pc = "loop"
  /\ IF i < totalWrites
       THEN /\ i' = i + 1
            /\ StreamWrite(i)
            /\ pc' = IF WriteReturn(i) THEN "loop" ELSE "idle"
       ELSE /\ pc' = "idle"
            /\ UNCHANGED <<i, buffered, needDrain, calls, ending>>
  /\ UNCHANGED <<script, totalWrites, highWaterMark, flushed, finished, closed,
                 errored, fhClosed>>
  /\ UNCHANGED <<fsVars, bufVars, emVars>>

\* One iteration of the while loop of pump() (writable_stream.js).
pump ==
  /\ script = "writable_stream"
  /\ pc = "loop"
  /\ IF i < totalWrites
       THEN LET isLast == (i = totalWrites - 1) IN
            /\ i' = i + 1
            /\ IF isLast
                 THEN StreamEnd(i) /\ pc' = "idle"
                 ELSE /\ StreamWrite(i)
                      /\ pc' = IF WriteReturn(i) THEN "loop" ELSE "idle"
       ELSE /\ pc' = "idle"
            /\ UNCHANGED <<i, buffered, needDrain, calls, ending>>
  /\ UNCHANGED <<script, totalWrites, highWaterMark, flushed, finished, closed,
                 errored, fhClosed>>
  /\ UNCHANGED <<fsVars, bufVars, emVars>>

\* writeMany() as it would be with "write() first and then end(buff)": the last
\* chunk is handed over twice.
writeMany_doubleWritesLast ==
  /\ script = "writeMany"
  /\ pc = "loop"
  /\ IF i < totalWrites
       THEN LET isLastWrite == (i = totalWrites - 1) IN
            /\ i' = i + 1
            /\ IF isLastWrite
                 THEN /\ buffered' = buffered \o <<i, i>>
                      /\ needDrain' = (needDrain \/ ~WriteReturn(i))
                      /\ calls' = calls \o << <<"write", i>>, <<"end", i>> >>
                      /\ ending' = TRUE
                      /\ pc' = "idle"
                 ELSE /\ StreamWrite(i)
                      /\ pc' = IF ~WriteReturn(i) THEN "idle" ELSE "loop"
       ELSE /\ pc' = "idle"
            /\ UNCHANGED <<i, buffered, needDrain, calls, ending>>
  /\ UNCHANGED <<script, totalWrites, highWaterMark, flushed, finished, closed,
                 errored, fhClosed>>
  /\ UNCHANGED <<fsVars, bufVars, emVars>>

\* One iteration of the while loop of writeMany() (writeMany.js).
writeMany ==
  /\ script = "writeMany"
  /\ pc = "loop"
  /\ IF i < totalWrites
       THEN LET isLastWrite == (i = totalWrites - 1) IN
            /\ i' = i + 1
            /\ IF isLastWrite
                 THEN StreamEnd(i) /\ pc' = "idle"
                 ELSE /\ StreamWrite(i)
                      /\ pc' = IF ~WriteReturn(i) THEN "idle" ELSE "loop"
       ELSE /\ pc' = "idle"
            /\ UNCHANGED <<i, buffered, needDrain, calls, ending>>
  /\ UNCHANGED <<script, totalWrites, highWaterMark, flushed, finished, closed,
                 errored, fhClosed>>
  /\ UNCHANGED <<fsVars, bufVars, emVars>>

\* The top-level call that starts the producer: `pump();` / `writeMany();`.
Start ==
  /\ script \in {"writable_stream", "writeMany"}
  /\ pc = "start"
  /\ pc' = "loop"
  /\ UNCHANGED <<script, i, totalWrites, highWaterMark, buffered, flushed, needDrain,
                 ending, finished, closed, errored, fhClosed, calls>>
  /\ UNCHANGED <<fsVars, bufVars, emVars>>

\* The runtime completes the write of the oldest queued chunk. It runs between
\* turns of the script (never inside the synchronous loop).
Flush ==
  /\ pc = "idle"
  /\ ~errored
  /\ buffered # <<>>
  /\ flushed' = Append(flushed, Head(buffered))
  /\ buffered' = Tail(buffered)
  /\ UNCHANGED <<script, i, totalWrites, highWaterMark, pc, needDrain, ending,
                 finished, closed, errored, fhClosed, calls>>
  /\ UNCHANGED <<fsVars, bufVars, emVars>>

\* 'drain': the queue emptied after a write() returned false; the listener
\* registered by the script (pump / () => writeMany()) is invoked.
Drain ==
  /\ pc = "idle"
  /\ needDrain /\ buffered = <<>> /\ ~ending /\ ~errored
  /\ needDrain' = FALSE
  /\ pc' = "loop"
  /\ UNCHANGED <<script, i, totalWrites, highWaterMark, buffered, flushed, ending,
                 finished, closed, errored, fhClosed, calls>>
  /\ UNCHANGED <<fsVars, bufVars, emVars>>

\* A 'finish' listener that would already close the FileHandle.
onFinish_closesHandle == fhClosed' = TRUE

\* The script's 'finish' listener: it only logs.
onFinish == UNCHANGED fhClosed

\* 'finish': end() was called and every queued chunk has been flushed.
Finish ==
  /\ pc = "idle"
  /\ ending /\ buffered = <<>> /\ ~finished /\ ~errored
  /\ finished' = TRUE
  /\ onFinish
  /\ UNCHANGED <<script, i, totalWrites, highWaterMark, pc, buffered, flushed,
                 needDrain, ending, closed, errored, calls>>
  /\ UNCHANGED <<fsVars, bufVars, emVars>>

\* The script's 'close' listener: close the FileHandle.
onClose == fhClosed' = TRUE

\* 'close': emitted once, after 'finish' or after the stream was destroyed.
Close ==
  /\ pc = "idle"
  /\ (finished \/ errored) /\ ~closed
  /\ closed' = TRUE
  /\ onClose
  /\ UNCHANGED <<script, i, totalWrites, highWaterMark, pc, buffered, flushed,
                 needDrain, ending, finished, errored, calls>>
  /\ UNCHANGED <<fsVars, bufVars, emVars>>

\* The script's 'error' listener only logs; the runtime destroys the stream
\* and drops what is still queued.
WriteError ==
  /\ pc = "idle"
  /\ buffered # <<>> /\ ~errored
  /\ errored' = TRUE
  /\ buffered' = <<>>
  /\ UNCHANGED <<script, i, totalWrites, highWaterMark, pc, flushed, needDrain,
                 ending, finished, closed, fhClosed, calls>>
  /\ UNCHANGED <<fsVars, bufVars, emVars>>

InitStreams ==
  /\ script \in {"writable_stream", "writeMany"}
  /\ i = 0
  /\ totalWrites \in 1..MaxTotalWrites
  /\ highWaterMark \in 1..MaxHighWaterMark
  /\ pc = "start"
  /\ buffered = <<>>
  /\ flushed = <<>>
  /\ needDrain = FALSE
  /\ ending = FALSE
  /\ finished = FALSE
  /\ closed = FALSE
  /\ errored = FALSE
  /\ fhClosed = FALSE
  /\ calls = <<>>
  /\ FsIdle
  /\ BufIdle
  /\ EmIdle

NextStreams ==
  \/ Start
  \/ pump
  \/ writeMany
  \/ Flush
  \/ Drain
  \/ Finish
  \/ Close
  \/ WriteError

SpecStreams == InitStreams /\ [][NextStreams]_vars

\* The event loop runs every callback that is ready; I/O errors are not owed.
FairSpecStreams ==
  /\ SpecStreams
  /\ WF_vars(Start) /\ WF_vars(pump) /\ WF_vars(writeMany)
  /\ WF_vars(Flush) /\ WF_vars(Drain) /\ WF_vars(Finish) /\ WF_vars(Close)

\* ====================================================================
\* Properties of the stream scripts
\* ====================================================================

Expected(n) == [k \in 1..n |-> IF k = n THEN <<"end", k - 1>> ELSE <<"write", k - 1>>]

IsPrefix(s, t) == Len(s) <= Len(t) /\ \A k \in 1..Len(s) : s[k] = t[k]

\* C2: the calls made on the stream are always a prefix of write(0), ...,
\* write(totalWrites-2), end(totalWrites-1).
C2_CallsArePrefix == IsPrefix(calls, Expected(totalWrites))

\* A complete run of several chunks, at least one of them after a 'drain'.
C2_Witness ==
  /\ totalWrites >= 3 /\ calls = Expected(totalWrites)
  /\ ChunkLen(script, 0) >= highWaterMark

StreamDone ==
  /\ calls # <<>> /\ calls[Len(calls)] = <<"end", totalWrites - 1>>
  /\ finished /\ closed

\* C3: if the stream keeps flushing and emitting 'drain' (no I/O error), the
\* script eventually calls end() on the last chunk and reaches 'finish' and
\* 'close', in that order.
C3_Terminates ==
  /\ <>(errored \/ StreamDone)
  /\ [](finished => ending)
  /\ [](closed /\ ~errored => finished)

\* A run that was paused by backpressure and completed.
C3_Witness ==
  /\ StreamDone /\ ~errored /\ totalWrites >= 2
  /\ ChunkLen(script, 0) >= highWaterMark

\* C4 as stated: the handle is closed only in response to 'close', never
\* before 'finish' and never while chunks remain to be accepted or flushed.
C4_Original ==
  fhClosed => closed /\ finished /\ buffered = <<>> /\ i = totalWrites

\* C4 as amended: the handle is closed only in response to 'close', when the
\* stream either has finished (all chunks accepted and flushed) or has been
\* destroyed by an I/O error; never while it still holds queued chunks.
C4_ClosedOnlyAfterStreamIsDone ==
  fhClosed =>
    /\ closed /\ buffered = <<>>
    /\ \/ errored
       \/ finished /\ i = totalWrites /\ Len(flushed) = totalWrites

\* The handle was closed after a complete run.
C4_Witness == fhClosed /\ finished /\ ~errored /\ totalWrites >= 2

\* ====================================================================
\* file-system/fs-project/app.js (final version): the command handler
\* ====================================================================
\* Strings are sequences of one-character strings.

CREATE_FILE == <<"c", "r", "e", "a", "t", "e", " ", "a", " ", "f", "i", "l", "e">>
DELETE_FILE == <<"d", "e", "l", "e", "t", "e", " ", "a", " ", "f", "i", "l", "e">>
RENAME_FILE == <<"r", "e", "n", "a", "m", "e", " ", "t", "h", "e", " ", "f", "i", "l", "e">>
ADD_TO_FILE == <<"a", "d", "d", " ", "t", "o", " ", "t", "h", "e", " ", "f", "i", "l", "e">>
\* The literals 'to' and 'this content:' searched for by the handler.
TO == <<"t", "o">>
THIS_CONTENT == <<"t", "h", "i", "s", " ", "c", "o", "n", "t", "e", "n", "t", ":">>

Min(a, b) == IF a < b THEN a ELSE b

WhiteSpace == {" ", "\n", "\t"}

\* String.prototype.substring(start) and substring(start, end), 0-based,
\* indices clamped to the length.
substringFrom(s, start) == SubSeq(s, Min(start, Len(s)) + 1, Len(s))
substring(s, start, end) == SubSeq(s, Min(start, Len(s)) + 1, Min(end, Len(s)))

\* String.prototype.indexOf(pat): 0-based index of the first occurrence, or -1.
indexOf(s, pat) ==
  LET hits == {k \in 0..(Len(s) - Len(pat)) : SubSeq(s, k + 1, k + Len(pat)) = pat}
  IN IF hits = {} THEN -1 ELSE CHOOSE k \in hits : \A h \in hits : k <= h

\* String.prototype.includes(pat)
includes(s, pat) == indexOf(s, pat) # -1

RECURSIVE trimStart(_)
trimStart(s) == IF s # <<>> /\ Head(s) \in WhiteSpace THEN trimStart(Tail(s)) ELSE s

RECURSIVE trimEnd(_)
trimEnd(s) ==
  IF s # <<>> /\ s[Len(s)] \in WhiteSpace THEN trimEnd(SubSeq(s, 1, Len(s) - 1)) ELSE s

\* String.prototype.trim()
trim(s) == trimEnd(trimStart(s))

\* s.split(pat)[1]?.trim(): the piece between the first and the second
\* occurrence of pat (or the end), trimmed; <<>> stands for undefined too, both
\* being falsy for the `!x` test that follows.
splitSecond(s, pat) ==
  LET k == indexOf(s, pat) IN
  IF k = -1 THEN <<>>
  ELSE LET rest == substringFrom(s, k + Len(pat))
           k2 == indexOf(rest, pat)
       IN trim(IF k2 = -1 THEN rest ELSE substring(rest, 0, k2))

\* ---- the file system (node:fs/promises), as far as the script uses it.
\* All paths are relative to one existing directory; a path with a "/" names
\* an entry of a directory that does not exist.
DirExists(path) == path # <<>> /\ \A k \in 1..Len(path) : path[k] # "/"

\* fs.open(path, 'r') resolves: the file exists and may be read.
OpenReadOk(fs, path) == path \in DOMAIN fs /\ fs[path].readable

\* fs.open(path, 'w') resolves: the entry can be created or truncated.
OpenWriteOk(fs, path) == DirExists(path)

Put(fs, path, file) == [q \in DOMAIN fs \cup {path} |-> IF q = path THEN file ELSE fs[q]]
Remove(fs, path) == [q \in DOMAIN fs \ {path} |-> fs[q]]

\* The file system after fs.open(path, 'w'): created empty, or truncated.
OpenWrite(fs, path) ==
  Put(fs, path, [content |-> <<>>,
                 readable |-> IF path \in DOMAIN fs THEN fs[path].readable ELSE TRUE])

\* fs.rename(oldPath, newPath) resolves.
RenameOk(fs, oldPath, newPath) == oldPath \in DOMAIN fs /\ DirExists(newPath)
Rename(fs, oldPath, newPath) ==
  IF oldPath = newPath THEN fs ELSE Put(Remove(fs, oldPath), newPath, fs[oldPath])

\* fs.appendFile(path, content): appends, creating the file if needed.
AppendOk(fs, path) == DirExists(path)
AppendFile(fs, path, content) ==
  IF path \in DOMAIN fs
    THEN Put(fs, path, [fs[path] EXCEPT !.content = @ \o content])
    ELSE Put(fs, path, [content |-> content, readable |-> TRUE])

\* The result of one of the four functions: the file system afterwards, the
\* messages logged, the mutations performed, and whether it threw (rejected).
Result(fs, msgs, muts, threw) ==
  [files |-> fs, console |-> msgs, mutations |-> muts, threw |-> threw]

createFile(fs, path) ==
  IF OpenReadOk(fs, path)
    THEN Result(fs, << <<"already exists", path>> >>, <<>>, FALSE)
    ELSE IF OpenWriteOk(fs, path)
      THEN Result(OpenWrite(fs, path), << <<"A new file was created successfully.">> >>,
                  << <<"open w", path>> >>, FALSE)
      ELSE Result(fs, <<>>, <<>>, TRUE)

deleteFile(fs, path) ==
  IF OpenReadOk(fs, path)
    THEN Result(Remove(fs, path), << <<"was deleted successfully", path>> >>,
                << <<"unlink", path>> >>, FALSE)
    ELSE Result(fs, << <<"does not exist", path>> >>, <<>>, FALSE)

renameFile(fs, oldPath, newPath) ==
  IF OpenReadOk(fs, oldPath) /\ RenameOk(fs, oldPath, newPath)
    THEN Result(Rename(fs, oldPath, newPath),
                << <<"was renamed", oldPath, newPath>> >>,
                << <<"rename", oldPath, newPath>> >>, FALSE)
    ELSE Result(fs, << <<"does not exist", oldPath>> >>, <<>>, FALSE)

\* addToFile as it would be without the existence check: appendFile creates
\* the file.
addToFile_withoutExistenceCheck(fs, path, content) ==
  IF AppendOk(fs, path)
    THEN Result(AppendFile(fs, path, content), << <<"Content was added", path>> >>,
                << <<"appendFile", path, content>> >>, FALSE)
    ELSE Result(fs, << <<"does not exist", path>> >>, <<>>, FALSE)

addToFile(fs, path, content) ==
  IF OpenReadOk(fs, path) /\ AppendOk(fs, path)
    THEN Result(AppendFile(fs, path, content), << <<"Content was added", path>> >>,
                << <<"appendFile", path, content>> >>, FALSE)
    ELSE Result(fs, << <<"does not exist", path>> >>, <<>>, FALSE)

\* ---- the 'change' handler, one step per `if (commandText.includes(...))` block.
\* Each block holds one await, so a step is what runs between two suspension
\* points. Runs of the handler are taken one after the other: a 'change' is
\* handled once the previous run has returned or rejected.

\* Parsing of the rename command: the early-return message, or the two paths.
renameArgs(text) ==
  LET afterCommand == trim(substringFrom(text, Len(RENAME_FILE) + 1))
      spaceIndex == indexOf(afterCommand, <<" ">>)
      oldFilePath == trim(substring(afterCommand, 0, spaceIndex))
      afterOldPath == trim(substringFrom(afterCommand, spaceIndex + 1))
      newFilePath == splitSecond(afterOldPath, TO)
  IN IF spaceIndex = -1
       THEN [error |-> "Error: Both old and new file paths are required."]
     ELSE IF ~includes(afterOldPath, TO)
       THEN [error |-> "Error: \"to\" keyword is required between old and new file paths."]
     ELSE IF newFilePath = <<>>
       THEN [error |-> "Error: New file path is required after \"to\"."]
     ELSE [error |-> "", oldFilePath |-> oldFilePath, newFilePath |-> newFilePath]

\* Parsing of the add command: the early-return message, or path and content.
addArgs(text) ==
  LET afterCommand == trim(substringFrom(text, Len(ADD_TO_FILE) + 1))
      spaceIndex == indexOf(afterCommand, <<" ">>)
      filePath == trim(substring(afterCommand, 0, spaceIndex))
      afterPath == trim(substringFrom(afterCommand, spaceIndex + 1))
      content == splitSecond(afterPath, THIS_CONTENT)
  IN IF spaceIndex = -1
       THEN [error |-> "Error: Both file path and content are required."]
     ELSE IF ~includes(afterPath, THIS_CONTENT)
       THEN [error |-> "Error: \"this content:\" keyword is required before the content."]
     ELSE IF content = <<>>
       THEN [error |-> "Error: Content is required after \"this content:\"."]
     ELSE [error |-> "", filePath |-> filePath, content |-> content]

\* The block does not apply to the command: fall through to the next block.
Skip(next) ==
  /\ hpc' = next
  /\ outcome' = IF next = "idle" THEN "returned" ELSE outcome
  /\ invoked' = <<>> /\ console' = <<>> /\ mutations' = <<>>
  /\ UNCHANGED files

\* The block awaited a function whose result is r: a rejection leaves the
\* handler (nothing in it catches), otherwise control reaches the next block.
Awaited(call, r, next) ==
  /\ invoked' = call
  /\ files' = r.files /\ console' = r.console /\ mutations' = r.mutations
  /\ hpc' = IF r.threw THEN "idle" ELSE next
  /\ outcome' = IF r.threw THEN "rejected" ELSE IF next = "idle" THEN "returned" ELSE outcome

\* The block logged a validation error and returned from the handler.
EarlyReturn(msg) ==
  /\ hpc' = "idle" /\ outcome' = "returned"
  /\ invoked' = <<>> /\ console' = << <<msg>> >> /\ mutations' = <<>>
  /\ UNCHANGED files

handleCreate ==
  /\ hpc = "create"
  /\ IF includes(commandText, CREATE_FILE)
       THEN LET filePath == trim(substringFrom(commandText, Len(CREATE_FILE) + 1))
            IN Awaited(<<"createFile", filePath>>, createFile(files, filePath), "delete")
       ELSE Skip("delete")
  /\ UNCHANGED <<script, streamVars, bufVars, emVars, commandText, changes>>

handleDelete ==
  /\ hpc = "delete"
  /\ IF includes(commandText, DELETE_FILE)
       THEN LET filePath == trim(substringFrom(commandText, Len(DELETE_FILE) + 1))
            IN Awaited(<<"deleteFile", filePath>>, deleteFile(files, filePath), "rename")
       ELSE Skip("rename")
  /\ UNCHANGED <<script, streamVars, bufVars, emVars, commandText, changes>>

handleRename ==
  /\ hpc = "rename"
  /\ IF includes(commandText, RENAME_FILE)
       THEN LET a == renameArgs(commandText) IN
            IF a.error # ""
              THEN EarlyReturn(a.error)
              ELSE Awaited(<<"renameFile", a.oldFilePath, a.newFilePath>>,
                           renameFile(files, a.oldFilePath, a.newFilePath), "add")
       ELSE Skip("add")
  /\ UNCHANGED <<script, streamVars, bufVars, emVars, commandText, changes>>

handleAdd ==
  /\ hpc = "add"
  /\ IF includes(commandText, ADD_TO_FILE)
       THEN LET a == addArgs(commandText) IN
            IF a.error # ""
              THEN EarlyReturn(a.error)
              ELSE Awaited(<<"addToFile", a.filePath, a.content>>,
                           addToFile(files, a.filePath, a.content), "idle")
       ELSE Skip("idle")
  /\ UNCHANGED <<script, streamVars, bufVars, emVars, commandText, changes>>

\* ---- what is written to command.txt in the model
MaxChanges == 2

PathA == <<"a">>
PathB == <<"b">>
PathTop == <<"t", "o", "p">>
PathNoDir == <<"d", "/", "a">>
\* Non-empty paths without spaces; "top" contains the letters "to", "d/a" lies
\* in a directory that does not exist.
Paths == {PathA, PathB, PathTop, PathNoDir}

TextX == <<"x">>
TextHiYo == <<"h", "i", " ", "y", "o">>
TextTwice == <<"x", " ">> \o THIS_CONTENT \o <<" ", "y">>
Texts == {TextX, TextHiYo, TextTwice}

SP == <<" ">>

CreateCmd(path) == CREATE_FILE \o SP \o path
DeleteCmd(path) == DELETE_FILE \o SP \o path
RenameCmd(old, new) == RENAME_FILE \o SP \o old \o SP \o TO \o SP \o new
AddCmd(path, text) == ADD_TO_FILE \o SP \o path \o SP \o THIS_CONTENT \o SP \o text

\* Rename commands without the 'to' keyword or without the new path.
MalformedRename ==
  {RENAME_FILE} \cup {RENAME_FILE \o SP \o old : old \in Paths}
    \cup {RENAME_FILE \o SP \o old \o SP \o new : old \in {PathA}, new \in Paths}
    \cup {RENAME_FILE \o SP \o old \o SP \o TO : old \in {PathA, PathTop}}

\* Add commands without the path, the 'this content:' keyword or the content.
MalformedAdd ==
  {ADD_TO_FILE} \cup {ADD_TO_FILE \o SP \o path : path \in Paths}
    \cup {ADD_TO_FILE \o SP \o path \o SP \o text : path \in {PathA}, text \in {TextX, TextHiYo}}
    \cup {ADD_TO_FILE \o SP \o path \o SP \o THIS_CONTENT : path \in {PathA, PathTop}}
    \cup {ADD_TO_FILE \o SP \o THIS_CONTENT \o SP \o text : text \in {TextX}}

WellFormed ==
  {CreateCmd(path) : path \in Paths} \cup {DeleteCmd(path) : path \in Paths}
    \cup {RenameCmd(old, new) : old \in Paths, new \in Paths}
    \cup {AddCmd(path, text) : path \in Paths, text \in Texts}

\* The contents command.txt takes: every command, as typed or followed by a
\* newline, plus a create without a path and a text that is no command.
CommandFileContents ==
  LET typed == WellFormed \cup MalformedRename \cup MalformedAdd
                 \cup {CREATE_FILE, <<"h", "e", "l", "l", "o">>}
  IN typed \cup {AddCmd(PathA, SP \o TextX \o <<" ", "\n">>), CreateCmd(PathA) \o <<"\n">>}

\* The watcher reports a change of command.txt and the handler reads it
\* (stat, read, toString, trim).
Change ==
  /\ script = "fs-project"
  /\ hpc = "idle"
  /\ changes < MaxChanges
  /\ \E text \in CommandFileContents : commandText' = trim(text)
  /\ hpc' = "create"
  /\ outcome' = "running"
  /\ changes' = changes + 1
  /\ invoked' = <<>> /\ console' = <<>> /\ mutations' = <<>>
  /\ UNCHANGED <<script, streamVars, bufVars, emVars, files>>

File(content, readable) == [content |-> content, readable |-> readable]

\* The directory before the script starts: "a" absent or present, "b" absent,
\* present, or present but not readable by the process.
InitialFiles ==
  {Put(fa, PathB, fb) : fa \in {<<>>, Put(<<>>, PathA, File(<<"h">>, TRUE))},
                        fb \in {File(<<"k">>, TRUE), File(<<"k">>, FALSE)}}
    \cup {<<>>, Put(<<>>, PathA, File(<<"h">>, TRUE))}

InitFs ==
  /\ script = "fs-project"
  /\ files \in InitialFiles
  /\ commandText = <<>> /\ hpc = "idle" /\ invoked = <<>>
  /\ console = <<>> /\ mutations = <<>> /\ outcome = "none" /\ changes = 0
  /\ StreamsIdle
  /\ BufIdle
  /\ EmIdle

NextFs ==
  \/ Change
  \/ handleCreate
  \/ handleDelete
  \/ handleRename
  \/ handleAdd

SpecFs == InitFs /\ [][NextFs]_vars

\* ====================================================================
\* Properties of the command handler
\* ====================================================================

\* C5 as stated: 'create a file <path>' creates an empty file at <path> when
\* no file exists there, and leaves an existing file unchanged, only
\* reporting that it already exists.
C5_Original ==
  [][\A path \in Paths :
       hpc = "create" /\ commandText = CreateCmd(path) =>
         IF path \in DOMAIN files
           THEN files' = files /\ console' = << <<"already exists", path>> >>
           ELSE files' = Put(files, path, File(<<>>, TRUE))]_vars

\* C6: deleteFile, renameFile and addToFile invoked on a path at which no
\* file exists mutate nothing (addToFile does not create the file), do not
\* throw, and only log that the file does not exist.
C6_MissingFileIsOnlyReported ==
  [][(/\ invoked' # <<>>
      /\ invoked'[1] \in {"deleteFile", "renameFile", "addToFile"}
      /\ invoked'[2] \notin DOMAIN files)
       => /\ files' = files
          /\ mutations' = <<>>
          /\ console' = << <<"does not exist", invoked'[2]>> >>
          /\ outcome' # "rejected"]_vars

\* addToFile has just been invoked on a path at which there is no file.
C6_Witness ==
  /\ invoked # <<>> /\ invoked[1] = "addToFile"
  /\ invoked[2] \in Paths /\ DirExists(invoked[2]) /\ invoked[2] \notin DOMAIN files
  /\ console = << <<"does not exist", invoked[2]>> >>

\* C7 as stated: a rename command without the 'to' keyword or the new path,
\* and an add command without the path, the 'this content:' keyword or the
\* content, logs an error and returns without invoking renameFile / addToFile
\* and without any file-system operation.
C7_Original ==
  [][(\/ hpc = "rename" /\ commandText \in MalformedRename
      \/ hpc = "add" /\ commandText \in MalformedAdd)
       => /\ hpc' = "idle" /\ outcome' = "returned"
          /\ invoked' = <<>> /\ mutations' = <<>> /\ files' = files
          /\ Len(console') = 1]_vars

\* C8 as stated: for 'rename the file <old> to <new>' with non-empty paths
\* without spaces, renameFile is invoked with exactly (<old>, <new>), so an
\* existing file at <old> ends up at <new>.
C8_Original ==
  [][\A old \in Paths, new \in Paths :
       hpc = "rename" /\ commandText = RenameCmd(old, new) =>
         /\ invoked' = <<"renameFile", old, new>>
         /\ old \in DOMAIN files =>
              new \in DOMAIN files' /\ files'[new] = files[old]]_vars

\* C9 as stated: for 'add to the file <path> this content: <text>' where a
\* file exists at <path>, exactly the trimmed <text> is appended to the file
\* and its previous content is kept as a prefix.
C9_Original ==
  [][\A path \in Paths, text \in Texts :
       hpc = "add" /\ commandText = AddCmd(path, text) /\ path \in DOMAIN files =>
         /\ path \in DOMAIN files'
         /\ files'[path].content = files[path].content \o trim(text)]_vars

\* C10 as stated: no failure of a file operation escapes the 'change'
\* handler: the handler's promise is never rejected.
C10_Original == outcome # "rejected"


\* ====================================================================
\* buffers/production-example.js: ProductionBufferProcessor
\* ====================================================================

\* A chunk is what a caller can pass: a Buffer (isBuffer, with its bytes) or
\* any other value (only its typeof is used by the code).
MaxChunkLen == 2

MaxBufferSizeOption == 1

MaxBatch == 2

MaxBufOps == 2

Bytes == {0, 255}

SeqsUpTo(S, n) == UNION {[1..k -> S] : k \in 0..n}

Buf(bytes) == [isBuffer |-> TRUE, typeof |-> "object", bytes |-> bytes]

NonBuffer(type) == [isBuffer |-> FALSE, typeof |-> type, bytes |-> <<>>]

Buffers == {Buf(b) : b \in SeqsUpTo(Bytes, MaxChunkLen)}

NonBuffers == {NonBuffer("string"), NonBuffer("undefined")}

Chunks == Buffers \cup NonBuffers

\* Elements of the batches: a valid chunk, the longest one (over the limit
\* of the smaller configurations) and a non-Buffer.
BatchChunks ==
  {Buf(<<255>>), Buf([k \in 1..MaxChunkLen |-> 255]), NonBuffer("string")}

RECURSIVE SumBytes(_)
SumBytes(b) == IF b = <<>> THEN 0 ELSE b[1] + SumBytes(Tail(b))

RECURSIVE NonZero(_)
NonZero(b) ==
  IF b = <<>> THEN 0 ELSE (IF b[1] # 0 THEN 1 ELSE 0) + NonZero(Tail(b))

\* _processBufferData(chunk): checksum, count of non-zero bytes, metadata.
processBufferData(chunk) ==
  [checksum     |-> SumBytes(chunk.bytes) % 256,
   nonZeroBytes |-> NonZero(chunk.bytes),
   length       |-> Len(chunk.bytes),
   firstByte    |-> IF chunk.bytes = <<>> THEN "undefined" ELSE chunk.bytes[1],
   lastByte     |-> IF chunk.bytes = <<>> THEN "undefined"
                    ELSE chunk.bytes[Len(chunk.bytes)]]

\* _handleError(error, chunkIndex): one entry pushed, errorCount++, no throw.
handleError(p, error, chunkIndex) ==
  [p EXCEPT !.errors = Append(@, [error |-> error, chunkIndex |-> chunkIndex]),
            !.errorCount = @ + 1]

\* processChunk(chunk, chunkIndex) with the size check left out.
processChunk_withoutSizeCheck(p, chunk, chunkIndex) ==
  IF ~chunk.isBuffer
    THEN LET error == <<"Invalid input: expected Buffer, got", chunk.typeof>>
         IN [p |-> handleError(p, error, chunkIndex),
             ret |-> [success |-> FALSE, error |-> error]]
    ELSE [p |-> [p EXCEPT !.processedBytes = @ + Len(chunk.bytes),
                          !.processedChunks = @ + 1],
          ret |-> [success |-> TRUE, chunkIndex |-> chunkIndex,
                   bytesProcessed |-> Len(chunk.bytes),
                   result |-> processBufferData(chunk)]]

\* processChunk(chunk, chunkIndex): the processor afterwards and the value
\* returned. _processBufferData and _updateMetrics do not throw for a
\* Buffer, so the catch block is not entered.
processChunk(p, chunk, chunkIndex) ==
  IF ~chunk.isBuffer
    THEN LET error == <<"Invalid input: expected Buffer, got", chunk.typeof>>
         IN [p |-> handleError(p, error, chunkIndex),
             ret |-> [success |-> FALSE, error |-> error]]
  ELSE IF Len(chunk.bytes) > p.maxBufferSize
    THEN LET error == <<"Chunk size", Len(chunk.bytes), "exceeds maximum",
                        p.maxBufferSize>>
         IN [p |-> handleError(p, error, chunkIndex),
             ret |-> [success |-> FALSE, error |-> error]]
    ELSE [p |-> [p EXCEPT !.processedBytes = @ + Len(chunk.bytes),
                          !.processedChunks = @ + 1],
          ret |-> [success |-> TRUE, chunkIndex |-> chunkIndex,
                   bytesProcessed |-> Len(chunk.bytes),
                   result |-> processBufferData(chunk)]]

RECURSIVE batchLoop(_, _, _, _)

\* The loop of processBatch, leaving at the first chunk that fails.
batchLoop_stopsAtFailure(p, chunks, k, results) ==
  IF k >= Len(chunks)
    THEN [p |-> p, results |-> results]
    ELSE LET r == processChunk(p, chunks[k + 1], k)
         IN IF r.ret.success
              THEN batchLoop(r.p, chunks, k + 1, Append(results, r.ret))
              ELSE [p |-> r.p, results |-> Append(results, r.ret)]

\* for (let i = 0; i < chunks.length; i++) results.push(processChunk(chunks[i], i))
batchLoop(p, chunks, k, results) ==
  IF k >= Len(chunks)
    THEN [p |-> p, results |-> results]
    ELSE LET r == processChunk(p, chunks[k + 1], k)
         IN batchLoop(r.p, chunks, k + 1, Append(results, r.ret))

\* results.filter((r) => r.success === success).length
CountWhere(results, success) ==
  Cardinality({k \in DOMAIN results : results[k].success = success})

\* processBatch(chunks) for an array.
processBatch(p, chunks) ==
  LET done == batchLoop(p, chunks, 0, <<>>)
  IN [p |-> done.p,
      ret |-> [totalChunks |-> Len(chunks),
               successfulChunks |-> CountWhere(done.results, TRUE),
               failedChunks |-> CountWhere(done.results, FALSE),
               totalBytesProcessed |-> done.p.processedBytes,
               results |-> done.results]]

\* reset(): counters and error log back to their initial values.
reset(p) ==
  [p EXCEPT !.processedBytes = 0, !.processedChunks = 0,
            !.errors = <<>>, !.errorCount = 0]

Batches == SeqsUpTo(BatchChunks, MaxBatch)

\* new ProductionBufferProcessor(options); _validateConfiguration accepts
\* 0 < chunkSize <= maxBufferSize.
InitBuffers ==
  /\ script = "buffers"
  /\ \E m \in 1..MaxBufferSizeOption : \E c \in 1..m :
       processor = [chunkSize |-> c, maxBufferSize |-> m, processedBytes |-> 0,
                    processedChunks |-> 0, errors |-> <<>>, errorCount |-> 0]
  /\ bufCall = <<>> /\ bufReturn = <<>> /\ bufOps = 0
  /\ StreamsIdle
  /\ FsIdle
  /\ EmIdle

CallProcessChunk ==
  /\ script = "buffers" /\ bufOps < MaxBufOps
  /\ \E chunk \in Chunks : \E chunkIndex \in 0..1 :
       LET r == processChunk(processor, chunk, chunkIndex)
       IN /\ processor' = r.p
          /\ bufCall' = <<"processChunk", chunk, chunkIndex>>
          /\ bufReturn' = <<"returned", r.ret>>
  /\ bufOps' = bufOps + 1
  /\ UNCHANGED <<script, streamVars, fsVars, emVars>>

CallProcessBatch ==
  /\ script = "buffers" /\ bufOps < MaxBufOps
  /\ \E chunks \in Batches :
       LET r == processBatch(processor, chunks)
       IN /\ processor' = r.p
          /\ bufCall' = <<"processBatch", [isArray |-> TRUE, elements |-> chunks]>>
          /\ bufReturn' = <<"returned", r.ret>>
  /\ bufOps' = bufOps + 1
  /\ UNCHANGED <<script, streamVars, fsVars, emVars>>

\* processBatch(x) for an x that is not an array throws before any chunk
\* is looked at.
CallProcessBatchNonArray ==
  /\ script = "buffers" /\ bufOps < MaxBufOps
  /\ bufCall' = <<"processBatch", [isArray |-> FALSE, elements |-> <<>>]>>
  /\ bufReturn' = <<"threw", "chunks must be an array">>
  /\ bufOps' = bufOps + 1
  /\ UNCHANGED <<script, streamVars, fsVars, emVars, processor>>

\* reset() and cleanup() have the same effect on the state kept here.
CallReset ==
  /\ script = "buffers" /\ bufOps < MaxBufOps
  /\ processor' = reset(processor)
  /\ bufCall' = <<"reset">>
  /\ bufReturn' = <<"returned", "undefined">>
  /\ bufOps' = bufOps + 1
  /\ UNCHANGED <<script, streamVars, fsVars, emVars>>

NextBuffers ==
  \/ CallProcessChunk
  \/ CallProcessBatch
  \/ CallProcessBatchNonArray
  \/ CallReset

SpecBuffers == InitBuffers /\ [][NextBuffers]_vars

\* ====================================================================
\* Properties of the buffer processor
\* ====================================================================

\* The chunk of the last processChunk call is one the validation rejects.
RejectedChunk(chunk, p) == ~chunk.isBuffer \/ Len(chunk.bytes) > p.maxBufferSize

\* C18: processChunk given a value that is not a Buffer, or a Buffer longer
\* than maxBufferSize, returns success = false without throwing, adds
\* exactly one entry to errors and leaves processedBytes and
\* processedChunks as they were.
C18_InvalidChunkIsRecordedOnce ==
  [][(/\ bufCall' # <<>> /\ bufCall'[1] = "processChunk"
      /\ RejectedChunk(bufCall'[2], processor))
     => /\ bufReturn'[1] = "returned"
        /\ bufReturn'[2].success = FALSE
        /\ Len(processor'.errors) = Len(processor.errors) + 1
        /\ SubSeq(processor'.errors, 1, Len(processor.errors)) = processor.errors
        /\ processor'.processedBytes = processor.processedBytes
        /\ processor'.processedChunks = processor.processedChunks]_vars

\* An oversized Buffer was rejected after an earlier chunk was processed.
C18_Witness ==
  /\ bufCall # <<>> /\ bufCall[1] = "processChunk"
  /\ bufCall[2].isBuffer /\ Len(bufCall[2].bytes) > processor.maxBufferSize
  /\ bufReturn[1] = "returned" /\ bufReturn[2].success = FALSE
  /\ Len(processor.errors) = 1
  /\ processor.processedChunks = 1

\* C19: processBatch on an array processes every element, also those after
\* a failed one; results holds one result per element, in the order of the
\* input, and totalChunks = successfulChunks + failedChunks = the length of
\* the array.
C19_BatchProcessesEveryElement ==
  [][(/\ bufCall' # <<>> /\ bufCall'[1] = "processBatch"
      /\ bufCall'[2].isArray)
     => LET chunks == bufCall'[2].elements
            ret == bufReturn'[2]
        IN /\ bufReturn'[1] = "returned"
           /\ Len(ret.results) = Len(chunks)
           /\ \A k \in DOMAIN chunks :
                IF RejectedChunk(chunks[k], processor)
                  THEN ~ret.results[k].success
                  ELSE /\ ret.results[k].success
                       /\ ret.results[k].chunkIndex = k - 1
                       /\ ret.results[k].bytesProcessed = Len(chunks[k].bytes)
                       /\ ret.results[k].result = processBufferData(chunks[k])
           /\ ret.totalChunks = Len(chunks)
           /\ ret.successfulChunks + ret.failedChunks = Len(chunks)
           /\ processor'.processedChunks =
                processor.processedChunks + ret.successfulChunks
           /\ Len(processor'.errors) = Len(processor.errors) + ret.failedChunks
           /\ \A e \in 1..ret.failedChunks :
                LET entry == processor'.errors[Len(processor.errors) + e]
                IN RejectedChunk(chunks[entry.chunkIndex + 1], processor)]_vars

\* A batch whose first element failed and whose second was still processed.
C19_Witness ==
  /\ bufCall # <<>> /\ bufCall[1] = "processBatch" /\ bufCall[2].isArray
  /\ bufReturn[1] = "returned"
  /\ Len(bufReturn[2].results) >= 2
  /\ ~bufReturn[2].results[1].success
  /\ bufReturn[2].results[2].success
  /\ bufReturn[2].failedChunks = 1

\* ====================================================================
\* emitters/production-example.js: ProductionEventEmitter
\* ====================================================================

MaxEmOps == 3

\* Nested emit() calls the stack has room for; one more is a RangeError.
MaxStack == 2

MaxTime == 1

MaxDelay == 1

Events == {"error", "data"}

\* The delays passed to emitThrottled and emitDebounced.
Delays == {1, MaxDelay}

\* Maps (Map objects) keyed by event name.
MapSet(m, k, v) == [q \in DOMAIN m \cup {k} |-> IF q = k THEN v ELSE m[q]]

MapDelete(m, k) == [q \in DOMAIN m \ {k} |-> m[q]]

\* A registered listener. kind "default" is the handler the constructor
\* registers with the inherited on(); "on" and "once" went through the
\* wrappers, which catch what the listener throws and emit 'error'.
\* once() of node:events registers through this.on, that is, through the
\* wrapper: the function in the list is not the one removeListener looks
\* for, so the entry stays after it fired and does nothing from then on.
Listener(kind, throws) == [kind |-> kind, throws |-> throws, fired |-> FALSE]

DefaultErrorHandler == Listener("default", FALSE)

\* _shouldThrottle(eventName)
shouldThrottle(e) == FALSE

\* _updateMetrics(eventName); the timestamps are left out.
updateMetrics(em, e) ==
  LET old == IF e \in DOMAIN em.eventMetrics THEN em.eventMetrics[e]
             ELSE [count |-> 0, totalListenersCalled |-> 0]
  IN [em EXCEPT
        !.eventMetrics = MapSet(@, e,
           [count |-> old.count + 1,
            totalListenersCalled |->
              old.totalListenersCalled + Len(em.listeners[e])]),
        !.totalEventsEmitted = @ + 1]

Outcome(em, log, threw, ret) == [em |-> em, log |-> log, threw |-> threw, ret |-> ret]

RECURSIVE emit(_, _, _, _, _)
RECURSIVE callListeners(_, _, _, _, _, _)

\* super.emit(eventName, ...args): 'error' without a listener throws; the
\* listeners are called in order of registration; what a listener lets out
\* ends the dispatch.
superEmit(em, log, e, arg, depth) ==
  LET log0 == Append(log, [kind |-> "dispatch", event |-> e, listener |-> 0,
                           arg |-> arg])
  IN IF em.listeners[e] = <<>>
       THEN Outcome(em, log0, IF e = "error" THEN "Error" ELSE "none", FALSE)
       ELSE LET r == callListeners(em, log0, e, arg, 1, depth)
            IN Outcome(r.em, r.log, r.threw, TRUE)

\* The calls of the listeners of e from the k-th on.
callListeners(em, log, e, arg, k, depth) ==
  IF k > Len(em.listeners[e])
    THEN Outcome(em, log, "none", TRUE)
    ELSE
      LET l == em.listeners[e][k]
      IN IF l.kind = "once" /\ l.fired
           THEN callListeners(em, log, e, arg, k + 1, depth)
           ELSE
             LET em1 == [em EXCEPT !.listeners[e][k].fired = (l.kind = "once")]
                 log1 == Append(log, [kind |-> "invoke", event |-> e,
                                      listener |-> k, arg |-> arg])
             IN IF ~l.throws
                  THEN callListeners(em1, log1, e, arg, k + 1, depth)
                  ELSE
                    \* catch (error) { this.emit('error', error) }
                    LET log2 == Append(log1, [kind |-> "emitError", event |-> e,
                                              listener |-> k, arg |-> <<"thrown">>])
                        r == emit(em1, log2, "error", <<"thrown">>, depth + 1)
                    IN IF r.threw # "none"
                         THEN r
                         ELSE callListeners(r.em, r.log, e, arg, k + 1, depth)

\* emit(eventName, ...args) of ProductionEventEmitter.
emit(em, log, e, arg, depth) ==
  IF depth > MaxStack
    THEN Outcome(em, log, "RangeError", FALSE)
    ELSE
      LET em1 == IF em.enableMetrics THEN updateMetrics(em, e) ELSE em
      IN IF em.enableThrottling /\ shouldThrottle(e)
           THEN Outcome(em1, log, "none", FALSE)
         ELSE IF em.enableDebouncing
           THEN \* _debounceEvent: super.emit at once; return true
                LET r == superEmit(em1, log, e, arg, depth)
                IN Outcome(r.em, r.log, r.threw, TRUE)
           ELSE LET listenerCount == Len(em1.listeners[e])
                    r == superEmit(em1, log, e, arg, depth)
                IN IF r.threw # "none" \/ ~em.enableMetrics
                     THEN r
                     ELSE Outcome([r.em EXCEPT !.totalListenersCalled =
                                                  @ + listenerCount],
                                  r.log, "none", r.ret)

\* What the caller of a method sees.
Returned(r) == IF r.threw # "none" THEN <<"threw", r.threw>> ELSE <<"returned", r.ret>>

\* new ProductionEventEmitter(options). enableThrottling is left at its
\* default: _shouldThrottle returns false, so emit() does the same with it
\* switched off.
InitEmitter ==
  /\ script = "emitter"
  /\ \E m, d \in BOOLEAN : \E t \in {TRUE} :
       emitter = [enableMetrics |-> m, enableThrottling |-> t,
                  enableDebouncing |-> d,
                  listeners |-> [e \in Events |->
                     IF e = "error" THEN <<DefaultErrorHandler>> ELSE <<>>],
                  listenerRegistry |-> <<>>,
                  eventMetrics |-> <<>>,
                  throttleTimers |-> <<>>,
                  debounceTimers |-> <<>>,
                  totalEventsEmitted |-> 0,
                  totalListenersCalled |-> 0]
  /\ timers = {} /\ now = 0 /\ emCall = <<>> /\ emReturn = <<>>
  /\ invocations = <<>> /\ debounced = <<>> /\ throttled = <<>> /\ emOps = 0
  /\ StreamsIdle
  /\ FsIdle
  /\ BufIdle

\* The size of the Set kept for e in listenerRegistry.
RegistrySize(em, e) ==
  IF e \in DOMAIN em.listenerRegistry THEN em.listenerRegistry[e] ELSE 0

\* on(eventName, listener), the wrapper installed by _wrapListeners.
on(em, e, l) ==
  [em EXCEPT !.listeners[e] = Append(@, l),
             !.listenerRegistry = MapSet(@, e, RegistrySize(em, e) + 1)]

\* once(eventName, listener): the inherited once() calls this.on, which
\* is the wrapper above, and the once wrapper adds a registry entry too.
once(em, e, l) ==
  LET em1 == on(em, e, l)
  IN [em1 EXCEPT !.listenerRegistry = MapSet(@, e, RegistrySize(em1, e) + 1)]

\* An exception left a timer callback: the process has ended.
Crashed == emCall # <<>> /\ emCall[1] = "timer" /\ emReturn[1] = "threw"

Running == script = "emitter" /\ ~Crashed

CallOn ==
  /\ Running /\ emOps < MaxEmOps
  /\ \E e \in Events : \E throws \in BOOLEAN :
       /\ emitter' = on(emitter, e, Listener("on", throws))
       /\ emCall' = <<"on", e, throws>>
  /\ emReturn' = <<"returned", "this">>
  /\ invocations' = <<>>
  /\ emOps' = emOps + 1
  /\ UNCHANGED <<script, streamVars, fsVars, bufVars, timers, now, debounced, throttled>>

CallOnce ==
  /\ Running /\ emOps < MaxEmOps
  /\ \E e \in Events : \E throws \in BOOLEAN :
       /\ emitter' = once(emitter, e, Listener("once", throws))
       /\ emCall' = <<"once", e, throws>>
  /\ emReturn' = <<"returned", "this">>
  /\ invocations' = <<>>
  /\ emOps' = emOps + 1
  /\ UNCHANGED <<script, streamVars, fsVars, bufVars, timers, now, debounced, throttled>>

CallEmit ==
  /\ Running /\ emOps < MaxEmOps
  /\ \E e \in Events :
       LET r == emit(emitter, <<>>, e, <<"payload">>, 0)
       IN /\ emitter' = r.em
          /\ emCall' = <<"emit", e>>
          /\ emReturn' = Returned(r)
          /\ invocations' = r.log
  /\ emOps' = emOps + 1
  /\ UNCHANGED <<script, streamVars, fsVars, bufVars, timers, now, debounced, throttled>>

\* emitThrottled(eventName, delay, ...args) that lets every call through.
emitThrottled_neverThrottles(em, t, e, delay, arg) ==
  superEmit([em EXCEPT !.throttleTimers = MapSet(@, e, t)], <<>>, e, arg, 0)

\* emitThrottled(eventName, delay, ...args) called at time t.
emitThrottled(em, t, e, delay, arg) ==
  IF e \notin DOMAIN em.throttleTimers
    THEN superEmit([em EXCEPT !.throttleTimers = MapSet(@, e, t)], <<>>, e, arg, 0)
  ELSE IF t - em.throttleTimers[e] >= delay
    THEN superEmit([em EXCEPT !.throttleTimers = MapSet(@, e, t)], <<>>, e, arg, 0)
    ELSE Outcome(em, <<>>, "none", FALSE)

\* clearTimeout(timer)
clearTimeout(ts, id) == {x \in ts : x.id # id}

\* emitDebounced(eventName, delay, ...args) that leaves the earlier timer
\* running.
emitDebounced_withoutClearTimeout(em, ts, t, e, delay, id) ==
  [em |-> [em EXCEPT !.debounceTimers = MapSet(@, e, id)],
   timers |-> ts \cup {[id |-> id, event |-> e, due |-> t + delay]}]

\* emitDebounced(eventName, delay, ...args) called at time t; id names the
\* timer it sets, and stands for the args of the call as well.
emitDebounced(em, ts, t, e, delay, id) ==
  LET kept == IF e \in DOMAIN em.debounceTimers
                THEN clearTimeout(ts, em.debounceTimers[e]) ELSE ts
  IN [em |-> [em EXCEPT !.debounceTimers = MapSet(@, e, id)],
      timers |-> kept \cup {[id |-> id, event |-> e, due |-> t + delay]}]

\* cleanup() that forgets the timers it drops from debounceTimers.
cleanup_withoutClearTimeout(em, ts) ==
  [em |-> [em EXCEPT !.listeners = [e \in Events |-> <<>>],
                     !.throttleTimers = <<>>,
                     !.debounceTimers = <<>>,
                     !.listenerRegistry = <<>>,
                     !.eventMetrics = <<>>,
                     !.totalEventsEmitted = 0,
                     !.totalListenersCalled = 0],
   timers |-> ts]

\* cleanup()
cleanup(em, ts) ==
  [em |-> [em EXCEPT !.listeners = [e \in Events |-> <<>>],
                     !.throttleTimers = <<>>,
                     !.debounceTimers = <<>>,
                     !.listenerRegistry = <<>>,
                     !.eventMetrics = <<>>,
                     !.totalEventsEmitted = 0,
                     !.totalListenersCalled = 0],
   timers |-> {x \in ts :
                 \A e \in DOMAIN em.debounceTimers : x.id # em.debounceTimers[e]}]

CallEmitThrottled ==
  /\ Running /\ emOps < MaxEmOps
  /\ \E e \in Events : \E delay \in Delays :
       LET r == emitThrottled(emitter, now, e, delay, <<"payload">>)
           passes == r.log # <<>>
       IN /\ emitter' = r.em
          /\ emCall' = <<"emitThrottled", e, delay, passes>>
          /\ emReturn' = Returned(r)
          /\ invocations' = r.log
          /\ throttled' = IF passes
                            THEN MapSet(throttled, e, [at |-> now, cleaned |-> FALSE])
                            ELSE throttled
  /\ emOps' = emOps + 1
  /\ UNCHANGED <<script, streamVars, fsVars, bufVars, timers, now, debounced>>

\* A call of emitDebounced for e now comes less than the delay after the
\* previous one, which is still waiting for its timer.
InBurst(e) ==
  /\ e \in DOMAIN debounced
  /\ \E x \in timers : x.id = debounced[e].id
  /\ now < debounced[e].at + debounced[e].delay

CallEmitDebounced ==
  /\ Running /\ emOps < MaxEmOps
  /\ \E e \in Events : \E delay \in Delays :
       LET r == emitDebounced(emitter, timers, now, e, delay, emOps + 1)
       IN /\ emitter' = r.em
          /\ timers' = r.timers
          /\ emCall' = <<"emitDebounced", e, delay, emOps + 1>>
          /\ debounced' = MapSet(debounced, e,
                             [id |-> emOps + 1, at |-> now, delay |-> delay,
                              cleaned |-> FALSE, delivered |-> 0,
                              burst |-> IF InBurst(e) THEN debounced[e].burst + 1
                                        ELSE 1])
  /\ emReturn' = <<"returned", TRUE>>
  /\ invocations' = <<>>
  /\ emOps' = emOps + 1
  /\ UNCHANGED <<script, streamVars, fsVars, bufVars, now, throttled>>

CallCleanup ==
  /\ Running /\ emOps < MaxEmOps
  /\ LET r == cleanup(emitter, timers)
     IN /\ emitter' = r.em
        /\ timers' = r.timers
  /\ emCall' = <<"cleanup">>
  /\ emReturn' = <<"returned", "undefined">>
  /\ invocations' = <<>>
  /\ debounced' = [e \in DOMAIN debounced |-> [debounced[e] EXCEPT !.cleaned = TRUE]]
  /\ throttled' = [e \in DOMAIN throttled |-> [throttled[e] EXCEPT !.cleaned = TRUE]]
  /\ emOps' = emOps + 1
  /\ UNCHANGED <<script, streamVars, fsVars, bufVars, now>>

\* Time passes. The clock is read by emitThrottled, which compares it with
\* throttleTimers, and by the timers; with neither a throttle entry nor a
\* timer, a later reading cannot be told from the present one.
Tick ==
  /\ Running /\ now < MaxTime
  /\ emitter.throttleTimers # <<>> \/ timers # {}
  /\ now' = now + 1
  /\ UNCHANGED <<script, streamVars, fsVars, bufVars, emitter, timers, emCall,
                 emReturn, invocations, debounced, throttled, emOps>>

\* The callback of a timer set by emitDebounced, not before its delay has
\* passed: debounceTimers.delete(key); super.emit(eventName, ...args).
TimerFires ==
  /\ Running
  /\ \E x \in timers :
       /\ x.due <= now
       /\ LET em1 == [emitter EXCEPT !.debounceTimers = MapDelete(@, x.event)]
              r == superEmit(em1, <<>>, x.event, <<"call", x.id>>, 0)
          IN /\ emitter' = r.em
             /\ emReturn' = Returned(r)
             /\ invocations' = r.log
       /\ timers' = timers \ {x}
       /\ emCall' = <<"timer", x.event, x.id>>
       /\ debounced' = [e \in DOMAIN debounced |->
                          IF debounced[e].id = x.id
                            THEN [debounced[e] EXCEPT !.delivered = @ + 1]
                            ELSE debounced[e]]
  /\ UNCHANGED <<script, streamVars, fsVars, bufVars, now, throttled, emOps>>

NextEmitter ==
  \/ CallOn
  \/ CallOnce
  \/ CallEmit
  \/ CallEmitThrottled
  \/ CallEmitDebounced
  \/ CallCleanup
  \/ Tick
  \/ TimerFires

SpecEmitter == InitEmitter /\ [][NextEmitter]_vars

\* ====================================================================
\* Properties of the event emitter
\* ====================================================================

\* The timer of the last emitDebounced call for e is still set.
Pending(e) == \E x \in timers : x.id = debounced[e].id

\* Some listener of e runs when e is dispatched (a once listener runs once).
HasLiveListener(em, e) ==
  \E k \in DOMAIN em.listeners[e] :
    ~(em.listeners[e][k].kind = "once" /\ em.listeners[e][k].fired)

\* This step is the callback of a debounce timer.
DeliveryStep == emCall' # <<>> /\ emCall'[1] = "timer" /\ timers' # timers

\* A delivery hands the event to the listeners once, with the args of the
\* last emitDebounced call for the event, not before that call's delay has
\* passed; a call that a later one replaced is not delivered.
DeliversLastCall ==
  DeliveryStep =>
    LET e == emCall'[2]
        id == emCall'[3]
    IN /\ e \in DOMAIN debounced
       /\ debounced[e].id = id
       /\ debounced[e].delivered = 0
       /\ now >= debounced[e].at + debounced[e].delay
       /\ \A n \in DOMAIN invocations' :
            (invocations'[n].kind = "invoke" /\ invocations'[n].arg[1] = "call")
              => invocations'[n].event = e /\ invocations'[n].arg = <<"call", id>>
       /\ invocations' # <<>>
       /\ invocations'[1] = [kind |-> "dispatch", event |-> e, listener |-> 0,
                             arg |-> <<"call", id>>]
       /\ \A n \in DOMAIN invocations' :
            invocations'[n].kind = "dispatch" /\ n > 1
              => invocations'[n].arg = <<"thrown">>
       /\ HasLiveListener(emitter, e)
            => /\ Len(invocations') >= 2
               /\ invocations'[2].kind = "invoke"
               /\ invocations'[2].arg = <<"call", id>>

\* C11 as stated: a burst of emitDebounced calls for one event is delivered
\* exactly once, d after its last call and with that call's args, and no
\* earlier call of the burst is delivered.
C11_Original ==
  /\ [](\A e \in DOMAIN debounced :
          \/ debounced[e].delivered = 1
          \/ debounced[e].delivered = 0 /\ Pending(e))
  /\ [][DeliversLastCall]_vars

\* C11, amended: a burst of emitDebounced calls for one event is delivered
\* at most once, with the args of its last call and not before d has passed
\* since that call, and no earlier call of the burst is delivered; the last
\* call stays scheduled until it is delivered unless a later emitDebounced
\* call for the event or cleanup() cancels its timer first.
C11_DebounceDeliversLastCallUnlessCancelled ==
  /\ [](\A e \in DOMAIN debounced :
          \/ debounced[e].delivered = 1 /\ ~Pending(e)
          \/ debounced[e].delivered = 0 /\ (Pending(e) \/ debounced[e].cleaned))
  /\ [][DeliversLastCall]_vars

\* The second call of a burst was delivered to a listener.
C11_Witness ==
  /\ emCall # <<>> /\ emCall[1] = "timer"
  /\ emCall[2] \in DOMAIN debounced
  /\ debounced[emCall[2]].id = emCall[3]
  /\ debounced[emCall[2]].burst = 2
  /\ debounced[emCall[2]].delivered = 1
  /\ Len(invocations) >= 2
  /\ invocations[2].kind = "invoke"
  /\ invocations[2].arg = <<"call", emCall[3]>>

\* This step is a call of emitThrottled.
ThrottledStep == emCall' # <<>> /\ emCall'[1] = "emitThrottled" /\ emOps' # emOps

\* The call of this step hands the event to the listeners exactly if
\* known(e) is false or the delay has passed since the delivery recorded
\* for e; a call that does not, returns false and invokes nothing.
ThrottleRule(known(_)) ==
  ThrottledStep =>
    LET e == emCall'[2]
        delay == emCall'[3]
        delivered == emCall'[4]
    IN /\ delivered <=> (~known(e) \/ now - throttled[e].at >= delay)
       /\ delivered
            => /\ invocations'[1] = [kind |-> "dispatch", event |-> e,
                                     listener |-> 0, arg |-> <<"payload">>]
               /\ HasLiveListener(emitter, e)
                    => /\ Len(invocations') >= 2
                       /\ invocations'[2].kind = "invoke"
                       /\ invocations'[2].arg = <<"payload">>
       /\ ~delivered => invocations' = <<>> /\ emReturn' = <<"returned", FALSE>>

DeliveredBefore(e) == e \in DOMAIN throttled

DeliveredSinceCleanup(e) == e \in DOMAIN throttled /\ ~throttled[e].cleaned

\* C12 as stated: the first emitThrottled call for an event invokes the
\* listeners; a later call invokes them only if at least d has passed since
\* the last call that did, and otherwise returns false without invoking
\* them, so that two deliveries are at least d apart.
C12_Original == [][ThrottleRule(DeliveredBefore)]_vars

\* C12, amended: the first emitThrottled call for an event after
\* construction or after cleanup() invokes the listeners; a later call
\* invokes them only if at least d has passed since the last call that did
\* (since the last cleanup()), and otherwise returns false without invoking
\* them.
C12_ThrottleSinceCleanup == [][ThrottleRule(DeliveredSinceCleanup)]_vars

\* A call within the delay of a delivered one was turned away.
C12_Witness ==
  /\ emCall # <<>> /\ emCall[1] = "emitThrottled"
  /\ emCall[4] = FALSE
  /\ emReturn = <<"returned", FALSE>>
  /\ DeliveredSinceCleanup(emCall[2])
  /\ now - throttled[emCall[2]].at < emCall[3]

\* This step is a call of emit.
EmitStep == emCall' # <<>> /\ emCall'[1] = "emit" /\ emOps' # emOps

\* C13 as stated: emit returns true exactly if the event had at least one
\* registered listener, whatever the options.
C13_Original ==
  [][EmitStep /\ emReturn'[1] = "returned"
       => emReturn'[2] = (emitter.listeners[emCall'[2]] # <<>>)]_vars

\* Some listener of e that runs on the next dispatch throws.
HasThrowingListener(em, e) ==
  \E k \in DOMAIN em.listeners[e] :
    /\ em.listeners[e][k].throws
    /\ ~(em.listeners[e][k].kind = "once" /\ em.listeners[e][k].fired)

\* C14 as stated: what a listener registered with on() or once() throws
\* does not reach the caller of emit(); an 'error' event is emitted for it,
\* and the other listeners of the event are still invoked.
C14_Original ==
  [][EmitStep /\ HasThrowingListener(emitter, emCall'[2])
       => LET e == emCall'[2]
          IN /\ emReturn'[1] = "returned"
             /\ \A n \in DOMAIN invocations' :
                  (/\ invocations'[n].kind = "invoke"
                   /\ emitter.listeners[invocations'[n].event]
                                       [invocations'[n].listener].throws)
                    => /\ n + 1 \in DOMAIN invocations'
                       /\ invocations'[n + 1].kind = "emitError"
             /\ \A k \in DOMAIN emitter.listeners[e] :
                  ~(emitter.listeners[e][k].kind = "once"
                    /\ emitter.listeners[e][k].fired)
                    => \E n \in DOMAIN invocations' :
                         invocations'[n] = [kind |-> "invoke", event |-> e,
                                            listener |-> k,
                                            arg |-> <<"payload">>]]_vars

\* C15 as stated: whatever calls were made, an 'error' listener is
\* registered.
C15_Original == emitter.listeners["error"] # <<>>

\* C16 as stated: what a listener throws while 'error' is being handled
\* does not make 'error' be emitted again, and no emit() runs out of stack.
C16_Original ==
  /\ \A n \in DOMAIN invocations :
       ~(invocations[n].kind = "emitError" /\ invocations[n].event = "error")
  /\ ~(emReturn # <<>> /\ emReturn[1] = "threw" /\ emReturn[2] = "RangeError")

\* This step is a call of cleanup.
CleanupStep == emCall' = <<"cleanup">> /\ emOps' # emOps

\* C17: when cleanup() has returned there is no listener for any event, no
\* debounce timer is pending, throttle state and registry are empty and
\* both totals are 0; and nothing that emitDebounced scheduled before the
\* cleanup is delivered after it.
C17_CleanupLeavesNothingBehind ==
  /\ [][CleanupStep
          => /\ \A e \in Events : emitter'.listeners[e] = <<>>
             /\ emitter'.debounceTimers = <<>>
             /\ timers' = {}
             /\ emitter'.throttleTimers = <<>>
             /\ emitter'.listenerRegistry = <<>>
             /\ emitter'.totalEventsEmitted = 0
             /\ emitter'.totalListenersCalled = 0]_vars
  /\ [][DeliveryStep => ~debounced[emCall'[2]].cleaned]_vars

\* cleanup() has cancelled a pending debounced emission and removed
\* registered listeners.
C17_Witness ==
  /\ emCall = <<"cleanup">>
  /\ timers = {}
  /\ \E e \in DOMAIN debounced :
       debounced[e].cleaned /\ debounced[e].delivered = 0
  /\ \A e \in Events : emitter.listeners[e] = <<>>

\* ====================================================================
\* The scripts are independent programs: a run is a run of one of them.
\* ====================================================================

Init == InitStreams \/ InitFs \/ InitBuffers \/ InitEmitter

Next == NextStreams \/ NextFs \/ NextBuffers \/ NextEmitter

Spec == Init /\ [][Next]_vars
====
